---------------------------- MODULE Spec2Model ----------------------------
(***************************************************************************)
(* The dialogue manager of the pet-adoption chatbot                        *)
(* (src/src/chatbot_pipeline.py): the session held by a ChatbotPipeline,   *)
(* handle_message and reset, the validation of extracted entities and the  *)
(* merge of validated entities into the session.                           *)
(*                                                                         *)
(* A Python string is a sequence of one-character strings, so that         *)
(* lower(), strip(), split(), len() and the substring and vowel tests are  *)
(* computed on the characters.  A reply is a sequence of chunks: a literal *)
(* of the source is one chunk, an interpolated value contributes its       *)
(* characters.  A dict is a function whose domain is its key set.  The     *)
(* three collaborators (rapidfuzz's extractOne, IntentClassifier.predict,  *)
(* EntityExtractor.extract) are the environment: each call returns a value *)
(* drawn from a finite set of outcomes, or raises.                         *)
(***************************************************************************)
EXTENDS Integers, Sequences, FiniteSets, TLC

VARIABLES session, last

vars == <<session, last>>

----------------------------------------------------------------------------
(* Python str operations                                                   *)

UpperChars ==
    << "A", "B", "C", "D", "E", "F", "G", "H", "I", "J", "K", "L", "M",
       "N", "O", "P", "Q", "R", "S", "T", "U", "V", "W", "X", "Y", "Z" >>

LowerChars ==
    << "a", "b", "c", "d", "e", "f", "g", "h", "i", "j", "k", "l", "m",
       "n", "o", "p", "q", "r", "s", "t", "u", "v", "w", "x", "y", "z" >>

Digits == {"0", "1", "2", "3", "4", "5", "6", "7", "8", "9"}

Whitespace == {" ", "\t", "\n"}

Range(s) == {s[i] : i \in 1..Len(s)}

UpperSet == Range(UpperChars)

Letters == Range(UpperChars) \cup Range(LowerChars)

LowerOf == [c \in UpperSet |-> LowerChars[CHOOSE i \in 1..26 : UpperChars[i] = c]]

\* str.lower() on one character
LowerChar(c) == IF c \in UpperSet THEN LowerOf[c] ELSE c

\* str.lower()
RECURSIVE Lower(_)
Lower(s) == IF s = << >> THEN << >> ELSE <<LowerChar(Head(s))>> \o Lower(Tail(s))

\* s[a..b], empty when a > b
Slice(s, a, b) == SubSeq(s, a, b)

\* str.strip()
Strip(s) ==
    LET keep == {i \in 1..Len(s) : s[i] \notin Whitespace}
    IN  IF keep = {} THEN << >>
        ELSE LET a == CHOOSE i \in keep : \A j \in keep : i <= j
                 b == CHOOSE i \in keep : \A j \in keep : j <= i
             IN  Slice(s, a, b)

\* str.split(): the maximal runs of non-whitespace characters, in order
RECURSIVE SplitFrom(_, _, _)
SplitFrom(s, i, word) ==
    IF i > Len(s)
    THEN IF word = << >> THEN << >> ELSE <<word>>
    ELSE IF s[i] \in Whitespace
         THEN (IF word = << >> THEN << >> ELSE <<word>>) \o SplitFrom(s, i + 1, << >>)
         ELSE SplitFrom(s, i + 1, Append(word, s[i]))

Split(s) == SplitFrom(s, 1, << >>)

\* sep.join(parts)
RECURSIVE Join(_, _)
Join(parts, sep) ==
    IF parts = << >> THEN << >>
    ELSE IF Len(parts) = 1 THEN parts[1]
    ELSE parts[1] \o sep \o Join(Tail(parts), sep)

\* sub in s
Contains(s, sub) ==
    \E i \in 0..(Len(s) - Len(sub)) : \A j \in 1..Len(sub) : s[i + j] = sub[j]

\* any(ch in "aeiou" for ch in s)
HasVowel(s) == \E i \in 1..Len(s) : s[i] \in {"a", "e", "i", "o", "u"}

IsLetter(c) == c \in Letters

IsWordChar(c) == IsLetter(c) \/ c \in Digits \/ c = "_"

\* re.findall(r"\b[a-zA-Z]+\b", s): the runs of letters that are not
\* adjacent to another word character, in order
RECURSIVE WordTokensFrom(_, _)
WordTokensFrom(s, i) ==
    IF i > Len(s) THEN << >>
    ELSE IF ~IsWordChar(s[i]) THEN WordTokensFrom(s, i + 1)
    ELSE LET ends == {j \in i..Len(s) : j = Len(s) \/ ~IsWordChar(s[j + 1])}
             e    == CHOOSE j \in ends : \A k \in ends : j <= k
             run  == Slice(s, i, e)
         IN  (IF \A k \in 1..Len(run) : IsLetter(run[k]) THEN <<run>> ELSE << >>)
             \o WordTokensFrom(s, e + 1)

WordTokens(s) == WordTokensFrom(s, 1)

----------------------------------------------------------------------------
(* Constants of the program                                                *)

REQUIRED_ENTITIES == <<"PET_TYPE", "STATE">>

OPTIONAL_ENTITIES == <<"BREED", "COLOR", "SIZE", "GENDER", "AGE", "FURLENGTH">>

\* None of Python, as the value of session["intent"]
None == "<None>"

\* conf < 0.55 in handle_message, in hundredths
ConfThreshold == 55

\* threshold=85 of autocorrect_text
FuzzyThreshold == 85

\* the default known_words of autocorrect_text
known_words ==
    << <<"d", "o", "g">>,
       <<"c", "a", "t">>,
       <<"a", "d", "o", "p", "t">>,
       <<"a", "d", "o", "p", "t", "i", "o", "n">>,
       <<"p", "u", "p", "p", "y">>,
       <<"k", "i", "t", "t", "e", "n">>,
       <<"m", "a", "l", "e">>,
       <<"f", "e", "m", "a", "l", "e">>,
       <<"s", "m", "a", "l", "l">>,
       <<"l", "a", "r", "g", "e">>,
       <<"b", "r", "o", "w", "n">>,
       <<"w", "h", "i", "t", "e">>,
       <<"b", "l", "a", "c", "k">>,
       <<"g", "o", "l", "d", "e", "n">>,
       <<"c", "r", "e", "a", "m">>,
       <<"s", "h", "o", "r", "t">>,
       <<"l", "o", "n", "g">>,
       <<"f", "u", "r">>,
       <<"J", "o", "h", "o", "r">>,
       <<"P", "e", "n", "a", "n", "g">>,
       <<"M", "e", "l", "a", "k", "a">>,
       <<"S", "e", "l", "a", "n", "g", "o", "r">>,
       <<"K", "u", "a", "l", "a">>,
       <<"L", "u", "m", "p", "u", "r">>,
       <<"P", "e", "r", "a", "k">>,
       <<"S", "a", "b", "a", "h">>,
       <<"S", "a", "r", "a", "w", "a", "k">> >>

species_out_of_scope ==
    << <<"h", "a", "m", "s", "t", "e", "r">>,
       <<"h", "a", "m", "s", "t", "e", "r", "s">>,
       <<"r", "a", "b", "b", "i", "t">>,
       <<"r", "a", "b", "b", "i", "t", "s">>,
       <<"b", "i", "r", "d">>,
       <<"b", "i", "r", "d", "s">>,
       <<"p", "a", "r", "r", "o", "t">>,
       <<"p", "a", "r", "r", "o", "t", "s">>,
       <<"f", "i", "s", "h">>,
       <<"f", "i", "s", "h", "e", "s">>,
       <<"s", "n", "a", "k", "e">>,
       <<"t", "u", "r", "t", "l", "e">> >>

species_terms ==
    << <<"h", "a", "m", "s", "t", "e", "r">>,
       <<"r", "a", "b", "b", "i", "t">>,
       <<"b", "i", "r", "d">>,
       <<"p", "a", "r", "r", "o", "t">>,
       <<"f", "i", "s", "h">>,
       <<"t", "u", "r", "t", "l", "e">>,
       <<"s", "n", "a", "k", "e">>,
       <<"g", "u", "i", "n", "e", "a">>,
       <<"h", "a", "m", "s", "t", "e", "r", "s">>,
       <<"r", "a", "b", "b", "i", "t", "s">>,
       <<"b", "i", "r", "d", "s">>,
       <<"p", "a", "r", "r", "o", "t", "s">>,
       <<"f", "i", "s", "h", "e", "s">> >>

SpeciesTermSet == Range(species_terms)

PetTypePlaceholders ==
    { <<"o", "n", "e">>,
       <<"i", "t">>,
       <<"a", "n", "i", "m", "a", "l">>,
       <<"p", "e", "t">> }

AgePlaceholders ==
    { <<"o", "n", "e">>,
       <<"1">>,
       <<"s", "i", "n", "g", "l", "e">>,
       <<"j", "o", "h", "o", "r">> }

SupportedSpecies ==
    { <<"d", "o", "g">>,
       <<"c", "a", "t">> }

\* the colour names the fallback of _extract_entities looks up in SYNONYMS
ColorNames ==
    { <<"b", "l", "a", "c", "k">>,
       <<"w", "h", "i", "t", "e">>,
       <<"b", "r", "o", "w", "n">>,
       <<"g", "o", "l", "d", "e", "n">>,
       <<"c", "r", "e", "a", "m">>,
       <<"g", "r", "a", "y">>,
       <<"o", "r", "a", "n", "g", "e">>,
       <<"y", "e", "l", "l", "o", "w">>,
       <<"b", "l", "u", "e">>,
       <<"r", "e", "d">>,
       <<"t", "a", "b", "b", "y">>,
       <<"c", "a", "l", "i", "c", "o">>,
       <<"t", "o", "r", "t", "o", "i", "s", "e", "s", "h", "e", "l", "l">> }

\* synonyms.SYNONYMS: canonical form -> variants.  The colour table of the
\* specification (section 4.3, step 8), one variant spelling, and two states.
SYNONYMS ==
    [canon \in ColorNames \cup {<<"J", "o", "h", "o", "r">>, <<"P", "e", "n", "a", "n", "g">>} |->
        IF canon = <<"g", "r", "a", "y">> THEN <<<<"g", "r", "e", "y">>>>
        ELSE IF canon = <<"J", "o", "h", "o", "r">> THEN <<<<"j", "b">>>>
        ELSE << >>]

\* synonyms.canonicalize: the canonical form of a recognised spelling
canonicalize(word) ==
    LET hits == {canon \in DOMAIN SYNONYMS :
                    \/ Lower(canon) = Lower(word)
                    \/ \E i \in 1..Len(SYNONYMS[canon]) :
                          Lower(SYNONYMS[canon][i]) = Lower(word)}
    IN  IF hits = {} THEN word ELSE CHOOSE canon \in hits : TRUE

\* valid_breeds of _extract_entities
valid_breeds == {Lower(b) : b \in DOMAIN SYNONYMS}

\* color_variants of _extract_entities
color_variants ==
    UNION {{Lower(canon)} \cup {Lower(SYNONYMS[canon][i]) : i \in 1..Len(SYNONYMS[canon])} :
              canon \in {c \in DOMAIN SYNONYMS : Lower(c) \in ColorNames}}

----------------------------------------------------------------------------
(* The environment: what the caller submits and what the collaborators     *)
(* return                                                                  *)

\* the bounds of the model: how many of the samples below are drawn from
NumUtterances == 12

NumExtractorResults == 8

Min(a, b) == IF a <= b THEN a ELSE b

EmptyDict == [k \in {} |-> << >>]

UtteranceSamples ==
    << <<>>,
       <<" ", " ">>,
       <<"h", "i">>,
       <<"H", "e", "l", "l", "o">>,
       <<"n", "o", "p", "e">>,
       <<"I", " ", "w", "a", "n", "t", " ", "a", " ", "r", "a", "b", "b", "i", "t">>,
       <<"z", "z", "z", "z", "z">>,
       <<"x">>,
       <<"g", "r", "e", "y">>,
       <<"k", "l">>,
       <<"c", "a", "t", " ", "i", "n", " ", "P", "e", "n", "a", "n", "g">>,
       <<"c", "a", "t">>,
       <<"b", "r", "o", "w", "n", " ", "d", "o", "g">> >>

Utterances ==
    {UtteranceSamples[i] : i \in 1..Min(NumUtterances, Len(UtteranceSamples))}

\* process.extractOne(w, known_words): (match, score, _), or an exception.
\* Every call of one turn has the same outcome.
FuzzyIdle == [raises |-> FALSE, match |-> << >>, score |-> 0]

FuzzyOutcomes ==
    { [raises |-> TRUE,  match |-> << >>, score |-> 0],
      [raises |-> FALSE, match |-> known_words[11], score |-> FuzzyThreshold - 1],
      [raises |-> FALSE, match |-> known_words[11], score |-> FuzzyThreshold] }

\* IntentClassifier.predict(text): (intent, confidence in hundredths), or an
\* exception
IntentLabels ==
    {"find_pet", "pet_care", "thank_you", "greeting", "goodbye", "unknown",
     "adoption_fee"}

ClassifierIdle == [raises |-> FALSE, intent |-> "unknown", conf |-> 0]

ClassifierOutcomes ==
    {[raises |-> TRUE, intent |-> "unknown", conf |-> 0]}
    \cup {[raises |-> FALSE, intent |-> i, conf |-> c] :
             i \in IntentLabels, c \in {ConfThreshold - 1, ConfThreshold}}

\* EntityExtractor.extract(text): a dict of entity label -> value, or an
\* exception
ExtractorSamples ==
    << EmptyDict,
       ("PET_TYPE" :> <<"D", "o", "g">> @@ "STATE" :> <<"P", "e", "n", "a", "n", "g">>),
       ("PET_TYPE" :> <<"c", "a", "t">> @@ "BREED" :> <<"p", "e", "r", "s", "i", "a", "n">> @@ "FURLENGTH" :> <<"l", "o", "n", "g">>),
       ("STATE" :> <<"J", "o", "h", "o", "r">> @@ "AGE" :> <<"o", "n", "e">> @@ "COLOR" :> <<"g", "r", "a", "y">>),
       ("PET_TYPE" :> <<"p", "a", "r", "r", "o", "t">>),
       ("PET_TYPE" :> <<"p", "e", "t">> @@ "SIZE" :> <<"x", "l">> @@ "BREED" :> <<"b", "r", "d">>),
       ("LOCATION" :> <<"P", "e", "n", "a", "n", "g">>),
       ("NOTICE" :> <<"h", "e", "l", "l", "o">>),
       ("STATE" :> <<"J", "o", "h", "o", "r">> @@ "BREED" :> <<"r", "a", "b", "b", "i", "t">>) >>

ExtractorIdle == [raises |-> FALSE, ents |-> EmptyDict]

ExtractorOutcomes ==
    {[raises |-> TRUE, ents |-> EmptyDict]}
    \cup {[raises |-> FALSE, ents |-> ExtractorSamples[i]] :
             i \in 1..Min(NumExtractorResults, Len(ExtractorSamples))}

----------------------------------------------------------------------------
(* dict helpers                                                            *)

\* d.get(k, dflt)
Get(d, k, dflt) == IF k \in DOMAIN d THEN d[k] ELSE dflt

\* d.pop(k, None) for each k of keys
Drop(d, keys) == [k \in DOMAIN d \ keys |-> d[k]]

\* d = {k: v}: the assignment that forgets the other keys
PutAlone(d, k, v) == (k :> v)

\* d[k] = v
Put(d, k, v) == [x \in DOMAIN d \cup {k} |-> IF x = k THEN v ELSE d[x]]

\* the order in which the keys of a dict are visited.  Python visits them in
\* insertion order; the visits of _update_entities_and_respond are
\* independent of each other, so the order decides only the order of the
\* acknowledgment lines.
KeyOrder ==
    <<"PET_TYPE", "STATE", "BREED", "COLOR", "SIZE", "GENDER", "AGE",
      "FURLENGTH", "LOCATION", "NOTICE">>

\* k.replace("_", " ").lower()
Readable(k) ==
    CASE k = "PET_TYPE"  -> <<"pet type">>
      [] k = "STATE"     -> <<"state">>
      [] k = "BREED"     -> <<"breed">>
      [] k = "COLOR"     -> <<"color">>
      [] k = "SIZE"      -> <<"size">>
      [] k = "GENDER"    -> <<"gender">>
      [] k = "AGE"       -> <<"age">>
      [] k = "FURLENGTH" -> <<"furlength">>
      [] k = "LOCATION"  -> <<"location">>
      [] OTHER           -> <<"notice">>

----------------------------------------------------------------------------
(* Texts of the replies                                                    *)

ScopeNotice ==
    <<"Sorry, I currently only help with cats and dogs. Would you like to search for one of those instead?">>

CatchNotice == <<"Hmm, I didn't quite catch that. Could you try again?">>

DeclineReply == <<"Alright. Let me know anytime if you change your mind.">>

HelloAgainReply == <<"Hello again! How can I help you today?">>

PetCareReply == <<"(RAG) Fetching pet care advice... (placeholder)">>

ThankYouReply == <<"You're most welcome! Anything else you'd like to ask?">>

GoodbyeReply == <<"Goodbye! Hope you find your perfect furry friend">>

FallbackReply ==
    <<"I'm not sure I understood. You can say 'I want to adopt a cat in Penang' or 'How to care for a puppy?'.">>

MoreDetailReply ==
    <<"Hmm, I didn't quite catch that. Could you tell me a bit more - like 'small cream dog' or 'female cat'?">>

PetAndStateReply ==
    <<"I'm not sure I understood that. Could you tell me what kind of pet and which state you're in? For example: 'I'm looking for a cat in Johor'.">>

_get_greeting ==
    <<"Hello! I can help you find cats or dogs for adoption, or answer pet care questions.\nYou can say things like:\n- I'm looking for a dog in Johor\n- How to care for a cat?\nSo, what would you like to do today?">>

ask_for(entity) ==
    CASE entity = "PET_TYPE"  -> <<"Are you looking for a dog or a cat?">>
      [] entity = "STATE"     -> <<"Which state or area are you in?">>
      [] entity = "BREED"     -> <<"Do you have a preferred breed?">>
      [] entity = "COLOR"     -> <<"Any color preference?">>
      [] entity = "SIZE"      -> <<"Do you prefer small or large pets?">>
      [] entity = "GENDER"    -> <<"Male or female?">>
      [] entity = "AGE"       -> <<"Puppy/kitten or adult?">>
      [] entity = "FURLENGTH" -> <<"Do you prefer short or long fur?">>
      [] OTHER                -> <<"Could you tell me the ">> \o Readable(entity) \o <<"?">>

\* the missing required slots, STATE asked before PET_TYPE
MissingStateFirst(entities) ==
    SelectSeq(<<"STATE", "PET_TYPE">>, LAMBDA e : e \notin DOMAIN entities)

\* [e for e in REQUIRED_ENTITIES if e not in self.session["entities"]]
Missing(entities) ==
    SelectSeq(REQUIRED_ENTITIES, LAMBDA e : e \notin DOMAIN entities)

\* [v for v in [ents.get("SIZE"), ...] if v]
RECURSIVE Details(_, _)
Details(entities, slots) ==
    IF slots = << >> THEN << >>
    ELSE (IF Get(entities, Head(slots), << >>) # << >>
          THEN <<entities[Head(slots)]>> ELSE << >>)
         \o Details(entities, Tail(slots))

_confirm_and_search(entities) ==
    <<"Got it! Searching for ">>
    \o Join(Details(entities, <<"SIZE", "COLOR", "GENDER", "AGE", "FURLENGTH", "BREED">>)
            \o <<Get(entities, "PET_TYPE", <<"p", "e", "t">>)>>, <<" ">>)
    \o (IF Get(entities, "BREED", << >>) = << >> THEN <<"s">> ELSE << >>)
    \o <<" in ">> \o Get(entities, "STATE", <<"your area">>) \o <<"...">>

----------------------------------------------------------------------------
(* autocorrect_text                                                        *)

\* the tokens autocorrect_text hands to process.extractOne
LongTokens(text) == SelectSeq(Split(text), LAMBDA w : Len(w) > 3)

\* one token of autocorrect_text, fz the outcome of process.extractOne
CorrectToken(w, fz) ==
    IF Len(w) <= 3 THEN w
    ELSE IF fz.score >= FuzzyThreshold /\ Lower(fz.match) # Lower(w)
         THEN fz.match
         ELSE w

RECURSIVE CorrectTokens(_, _)
CorrectTokens(words, fz) ==
    IF words = << >> THEN << >>
    ELSE <<CorrectToken(Head(words), fz)>> \o CorrectTokens(Tail(words), fz)

autocorrect_text(text, fz) == Join(CorrectTokens(Split(text), fz), <<" ">>)

----------------------------------------------------------------------------
(* Entity extraction and validation                                        *)

ContainsAny(lowered, words) ==
    \E i \in 1..Len(words) : Contains(lowered, words[i])

\* OutOfScope with == in place of the substring test
OutOfScopeExact(text) == Lower(text) \in Range(species_out_of_scope)

\* any(w in text.lower() for w in species_out_of_scope)
OutOfScope(text) == ContainsAny(Lower(text), species_out_of_scope)

TooShort(stripped) == stripped = << >> \/ Len(stripped) < 2

\* the two sanity checks of _extract_entities
FailsSanity(text) ==
    \/ TooShort(Strip(text))
    \/ Len(text) > 4 /\ ~HasVowel(Lower(text))

\* "Remove placeholders / irrelevant tokens"
StripPetType(ents) ==
    IF "PET_TYPE" \in DOMAIN ents /\ Lower(ents["PET_TYPE"]) \in PetTypePlaceholders
    THEN Drop(ents, {"PET_TYPE"}) ELSE ents

StripAge(ents) ==
    IF "AGE" \in DOMAIN ents /\ Lower(ents["AGE"]) \in AgePlaceholders
    THEN Drop(ents, {"AGE"}) ELSE ents

StripPlaceholders(ents) == StripAge(StripPetType(ents))

\* "Restrict supported species"
UnsupportedSpecies(ents) ==
    "PET_TYPE" \in DOMAIN ents /\ Lower(ents["PET_TYPE"]) \notin SupportedSpecies

ImplausibleBreed(breed_val) ==
    \/ breed_val \in SpeciesTermSet
    \/ (breed_val \notin valid_breeds /\ ~HasVowel(breed_val))

\* "Breed validation"
ValidateBreed(ents) ==
    IF "BREED" \in DOMAIN ents /\ ImplausibleBreed(Lower(ents["BREED"]))
    THEN Drop(ents, {"BREED"})
    ELSE ents

\* len(v) < 3 or not any(ch in "aeiou" for ch in v.lower())
Nonsense(v) == Len(v) < 3 \/ ~HasVowel(Lower(v))

\* DropNonsense without the filter
DropNothing(ents) == ents

\* "Drop short nonsense tokens"
DropNonsense(ents) == Drop(ents, {k \in DOMAIN ents : Nonsense(ents[k])})

\* the first word of tokens that is a colour variant, << >> when none is
RECURSIVE FirstColor(_)
FirstColor(tokens) ==
    IF tokens = << >> THEN << >>
    ELSE IF Head(tokens) \in color_variants THEN Head(tokens)
    ELSE FirstColor(Tail(tokens))

SetColor(ents, word) ==
    IF word # << >> /\ "COLOR" \notin DOMAIN ents
    THEN Put(ents, "COLOR", canonicalize(word))
    ELSE ents

\* "Color keyword fallback using synonym map"
ColorFallback(ents, text) == SetColor(ents, FirstColor(WordTokens(Lower(text))))

Notice(text) == ("NOTICE" :> text)

\* "No meaningful entities detected"
OrCatchNotice(ents) == IF ents = EmptyDict THEN Notice(CatchNotice) ELSE ents

\* _extract_entities from "Restrict supported species" on
Validated(ents, text) ==
    IF UnsupportedSpecies(ents) THEN Notice(ScopeNotice)
    ELSE OrCatchNotice(ColorFallback(DropNonsense(ValidateBreed(ents)), text))

\* _extract_entities(text), ext the outcome of self.ner_extractor.extract(text):
\* the dict it returns, or raised when the extractor raises
_extract_entities(text, ext) ==
    IF ext.raises THEN [raised |-> TRUE, ents |-> EmptyDict]
    ELSE [raised |-> FALSE,
          ents   |-> IF OutOfScope(text) THEN Notice(ScopeNotice)
                     ELSE IF FailsSanity(text) THEN Notice(CatchNotice)
                     ELSE Validated(StripPlaceholders(ext.ents), text)]

----------------------------------------------------------------------------
(* _update_entities_and_respond                                            *)

\* SetPetType without the pop of BREED and FURLENGTH
SetPetTypeKeepBreed(entities, old_pet, new_pet) ==
    IF new_pet = << >> THEN [entities |-> entities, confirm |-> << >>]
    ELSE IF old_pet # << >> /\ new_pet # old_pet
         THEN [entities |-> Put(entities, "PET_TYPE", new_pet),
               confirm  |-> << <<"Okay, updated pet type to ">> \o new_pet \o <<".">> >>]
         ELSE [entities |-> Put(entities, "PET_TYPE", new_pet), confirm |-> << >>]

\* the lines under "if new_pet:", old_pet and new_pet lower-cased
SetPetType(entities, old_pet, new_pet) ==
    IF new_pet = << >> THEN [entities |-> entities, confirm |-> << >>]
    ELSE IF old_pet # << >> /\ new_pet # old_pet
         THEN [entities |-> Put(Drop(entities, {"BREED", "FURLENGTH"}), "PET_TYPE", new_pet),
               confirm  |-> << <<"Okay, updated pet type to ">> \o new_pet \o <<".">> >>]
         ELSE [entities |-> Put(entities, "PET_TYPE", new_pet), confirm |-> << >>]

\* MergePetType without .lower() on the new species
MergePetTypeKeepCase(entities, ents) ==
    SetPetType(entities, Lower(Get(entities, "PET_TYPE", << >>)),
               Get(ents, "PET_TYPE", << >>))

MergePetType(entities, ents) ==
    SetPetType(entities, Lower(Get(entities, "PET_TYPE", << >>)),
               Lower(Get(ents, "PET_TYPE", << >>)))

\* SlotLine without the test prev != v
SlotLineAlwaysUpdated(k, prev, v) ==
    IF prev # << >>
    THEN << <<"Okay, updated ">> \o Readable(k) \o <<" to ">> \o v \o <<".">> >>
    ELSE << <<"Added ">> \o Readable(k) \o <<": ">> \o v \o <<".">> >>

\* the acknowledgment of one slot, prev its value in the session
SlotLine(k, prev, v) ==
    IF prev # << >> /\ prev # v
    THEN << <<"Okay, updated ">> \o Readable(k) \o <<" to ">> \o v \o <<".">> >>
    ELSE IF prev = << >>
         THEN << <<"Added ">> \o Readable(k) \o <<": ">> \o v \o <<".">> >>
         ELSE << >>

\* one visit of the loop "for k, v in ents.items()"
MergeSlot(acc, k, v) ==
    IF k \in {"PET_TYPE", "NOTICE"} THEN acc
    ELSE [entities |-> Put(acc.entities, k, v),
          confirm  |-> acc.confirm \o SlotLine(k, Get(acc.entities, k, << >>), v)]

RECURSIVE MergeSlots(_, _, _)
MergeSlots(acc, ents, i) ==
    IF i > Len(KeyOrder) THEN acc
    ELSE IF KeyOrder[i] \in DOMAIN ents
         THEN MergeSlots(MergeSlot(acc, KeyOrder[i], ents[KeyOrder[i]]), ents, i + 1)
         ELSE MergeSlots(acc, ents, i + 1)

\* ask_for(missing[0]) if missing else _confirm_and_search()
PromptFor(missing, entities) ==
    IF missing # << >> THEN ask_for(missing[1]) ELSE _confirm_and_search(entities)

PromptOrSearch(entities) == PromptFor(Missing(entities), entities)

\* the last three lines: the acknowledgments, then the prompt for the first
\* missing required slot or the final search message
MergeReply(confirm, entities) ==
    Join(confirm, <<" ">>) \o <<" ">> \o PromptOrSearch(entities)

MergeResult(sess, acc) ==
    [session |-> [sess EXCEPT !.entities = acc.entities],
     reply   |-> MergeReply(acc.confirm, acc.entities),
     merged  |-> TRUE]

\* _update_entities_and_respond without its first two lines
UpdateWithoutNoticeCheck(sess, ents) ==
    MergeResult(sess, MergeSlots(MergePetType(sess.entities, ents), ents, 1))

\* the session and the reply; merged says that the entities were written
_update_entities_and_respond(sess, ents) ==
    IF "NOTICE" \in DOMAIN ents
    THEN [session |-> sess, reply |-> ents["NOTICE"], merged |-> FALSE]
    ELSE MergeResult(sess, MergeSlots(MergePetType(sess.entities, ents), ents, 1))

----------------------------------------------------------------------------
(* The handlers.  Each returns the session it leaves, the reply (empty     *)
(* when an exception propagates: raised), and what it did on the way:      *)
(* vtexts, the texts it handed to _extract_entities; validated, the dict   *)
(* the last of these calls returned; merged, whether the entities of the   *)
(* session were written by _update_entities_and_respond.                   *)

Returned(sess, reply, vtexts, validated, merged) ==
    [session |-> sess, reply |-> reply, raised |-> FALSE,
     vtexts |-> vtexts, validated |-> validated, merged |-> merged]

Raised(sess, vtexts) ==
    [session |-> sess, reply |-> << >>, raised |-> TRUE,
     vtexts |-> vtexts, validated |-> EmptyDict, merged |-> FALSE]

\* return self._update_entities_and_respond(ents)
MergedWith(m, ents, vtexts) ==
    Returned(m.session, m.reply, vtexts, ents, m.merged)

Merged(sess, ents, vtexts) ==
    MergedWith(_update_entities_and_respond(sess, ents), ents, vtexts)

\* _handle_find_pet after ents = self._extract_entities(user_input)
FindPetWith(sess, v, vtexts) ==
    IF v.raised THEN Raised(sess, vtexts)
    ELSE IF "NOTICE" \in DOMAIN v.ents
         THEN Returned(sess, v.ents["NOTICE"], vtexts, v.ents, FALSE)
    ELSE IF v.ents # EmptyDict
         THEN Merged(sess, v.ents, vtexts)
    ELSE Returned(sess, PromptOrSearch(sess.entities), vtexts, v.ents, FALSE)

_handle_find_pet(sess, user_input, ext) ==
    FindPetWith(sess, _extract_entities(user_input, ext), <<user_input>>)

\* any(self.session["entities"].get(e) for e in REQUIRED_ENTITIES)
AnyRequired(entities) ==
    \E i \in 1..Len(REQUIRED_ENTITIES) :
        Get(entities, REQUIRED_ENTITIES[i], << >>) # << >>

\* "Second try, direct extraction" and the "graceful confusion fallback"
SecondTryWith(sess, v, vtexts) ==
    IF v.raised THEN Raised(sess, vtexts)
    ELSE IF "NOTICE" \in DOMAIN v.ents
         THEN Returned(sess, v.ents["NOTICE"], vtexts, v.ents, FALSE)
    ELSE IF v.ents # EmptyDict
         THEN Merged(sess, v.ents, vtexts)
    ELSE IF AnyRequired(sess.entities)
         THEN Returned(sess, MoreDetailReply, vtexts, v.ents, FALSE)
    ELSE Returned(sess, PetAndStateReply, vtexts, v.ents, FALSE)

\* f"I want a {token} {self.session['entities'].get('PET_TYPE', 'pet')}"
Pseudo(token, entities) ==
    <<"I", " ", "w", "a", "n", "t", " ", "a", " ">> \o token \o <<" ">>
    \o Get(entities, "PET_TYPE", <<"p", "e", "t">>)

\* "Only wrap descriptive words, not short codes"
Wraps(token) == Len(Split(token)) = 1 /\ Len(token) > 2

\* the text the short-input branch hands to _extract_entities
ShortText(user_input, token, entities) ==
    IF Wraps(token) THEN Pseudo(token, entities) ELSE user_input

\* the branch "if len(user_input.split()) <= 2" or, when it does not return
\* (short is false, or v1 is empty), the second try
UnknownWith(sess, user_input, short, first, v1, v2) ==
    IF short /\ v1.raised THEN Raised(sess, <<first>>)
    ELSE IF short /\ v1.ents # EmptyDict THEN Merged(sess, v1.ents, <<first>>)
    ELSE SecondTryWith(sess, v2, (IF short THEN <<first>> ELSE << >>) \o <<user_input>>)

\* the same outcome ext stands for both calls of the extractor: the second
\* call follows a first one only when the first returned an empty dict
FindPetUnknown(sess, user_input, ext, first) ==
    UnknownWith(sess, user_input, Len(Split(user_input)) <= 2, first,
                _extract_entities(first, ext), _extract_entities(user_input, ext))

_handle_unknown(sess, user_input, ext) ==
    IF sess.intent = "find_pet"
    THEN FindPetUnknown(sess, user_input, ext,
                        ShortText(user_input, Strip(user_input), sess.entities))
    ELSE Returned(sess, FallbackReply, << >>, EmptyDict, FALSE)

\* _is_new_intent without intent != prev_intent
IsNewIntentAnyKnown(intent, prev_intent) ==
    /\ intent \notin {"unknown", None}
    /\ prev_intent \notin {"unknown", None}

_is_new_intent(intent, prev_intent) ==
    /\ intent \notin {"unknown", None}
    /\ prev_intent \notin {"unknown", None}
    /\ intent # prev_intent

\* the low-confidence test without the confidence
LowConfidenceLabelOnly(intent, conf) == intent = "unknown"

\* "if intent == 'unknown' or conf < 0.55"
LowConfidence(intent, conf) == intent = "unknown" \/ conf < ConfThreshold

\* recording the intent without the intent-switch reset
RecordIntentNoReset(sess, intent) == [sess EXCEPT !.intent = intent]

\* "Intent switching" and self.session["intent"] = intent
RecordIntent(sess, intent) ==
    [(IF _is_new_intent(intent, sess.intent)
      THEN [intent |-> intent, entities |-> EmptyDict, greeted |-> TRUE]
      ELSE sess) EXCEPT !.intent = intent]

\* CannedReply without the default fallback: Python's None, no text
CannedReplyNoDefault(intent) ==
    CASE intent = "pet_care"  -> PetCareReply
      [] intent = "thank_you" -> ThankYouReply
      [] intent = "greeting"  -> HelloAgainReply
      [] intent = "goodbye"   -> GoodbyeReply
      [] OTHER                -> << >>

\* "Route by intent" for the intents other than find_pet
CannedReply(intent) ==
    CASE intent = "pet_care"  -> PetCareReply
      [] intent = "thank_you" -> ThankYouReply
      [] intent = "greeting"  -> HelloAgainReply
      [] intent = "goodbye"   -> GoodbyeReply
      [] OTHER                -> FallbackReply

\* "Route by intent", s2 the session after "Intent switching"
Route(s2, user_input, intent, ext) ==
    (IF intent = "find_pet"
     THEN _handle_find_pet(s2, user_input, ext)
     ELSE Returned(s2, CannedReply(intent), << >>, EmptyDict, FALSE))
    @@ [routed |-> TRUE, atRoute |-> s2]

\* handle_message after the classifier without the first-turn greeting
ClassifiedNoFirstGreeting(first_turn, s1, user_input, cls, ext) ==
    IF LowConfidence(cls.intent, cls.conf)
    THEN _handle_unknown(s1, user_input, ext) @@ [routed |-> FALSE, atRoute |-> s1]
    ELSE Route(RecordIntent(s1, cls.intent), user_input, cls.intent, ext)

\* handle_message from "if not self.session['greeted']" on, s1 the session
\* with greeted set, cls a normal return of self.intent_clf.predict
Classified(first_turn, s1, user_input, cls, ext) ==
    IF first_turn /\ cls.intent = "greeting"
    THEN Returned(s1, _get_greeting, << >>, EmptyDict, FALSE)
            @@ [routed |-> FALSE, atRoute |-> s1]
    ELSE IF LowConfidence(cls.intent, cls.conf)
    THEN _handle_unknown(s1, user_input, ext) @@ [routed |-> FALSE, atRoute |-> s1]
    ELSE Route(RecordIntent(s1, cls.intent), user_input, cls.intent, ext)

SmallTalkNo == {<<"n", "o">>, <<"n", "o", "p", "e">>, <<"n", "a", "h">>}

\* the greeting shortcuts without "hello"
SmallTalkHiShort == {<<"h", "i">>, <<"h", "e", "y">>}

SmallTalkHi == {<<"h", "i">>, <<"h", "e", "y">>, <<"h", "e", "l", "l", "o">>}

Repeat(n, x) == [i \in 1..n |-> x]

\* a return of handle_message before "Intent switching"
Early(r, sess, norm, calls) ==
    r @@ [norm |-> norm, calls |-> calls, routed |-> FALSE, atRoute |-> sess]

WithCalls(r, norm, calls) ==
    r @@ [norm |-> norm, calls |-> calls \o Repeat(Len(r.vtexts), "extractor")]

\* handle_message from "Small talk shortcuts" on: norm the text after typo
\* correction, lower its lower-cased form, calls the calls made so far
Corrected(sess, norm, lower, calls, cls, ext) ==
    IF lower \in SmallTalkNo
    THEN Early(Returned(sess, DeclineReply, << >>, EmptyDict, FALSE), sess, norm, calls)
    ELSE IF lower \in SmallTalkHi
    THEN Early(Returned([sess EXCEPT !.greeted = TRUE], HelloAgainReply,
                        << >>, EmptyDict, FALSE), sess, norm, calls)
    ELSE IF cls.raises
    THEN Early(Raised(sess, << >>), sess, norm, calls \o <<"classifier">>)
    ELSE WithCalls(Classified(~sess.greeted, [sess EXCEPT !.greeted = TRUE],
                              norm, cls, ext),
                   norm, calls \o <<"classifier">>)

\* handle_message that marks the session greeted on empty input
StrippedMarksGreeted(sess, stripped, nfuzzy, fz, cls, ext) ==
    IF stripped = << >>
    THEN Early(Returned([sess EXCEPT !.greeted = TRUE], _get_greeting,
                        << >>, EmptyDict, FALSE), sess, << >>, << >>)
    ELSE IF nfuzzy > 0 /\ fz.raises
    THEN Early(Raised(sess, << >>), sess, << >>, <<"fuzzy">>)
    ELSE Corrected(sess, autocorrect_text(stripped, fz),
                   Lower(autocorrect_text(stripped, fz)),
                   Repeat(nfuzzy, "fuzzy"), cls, ext)

\* handle_message from "Typo correction" on: stripped the stripped input,
\* nfuzzy the number of tokens handed to process.extractOne
Stripped(sess, stripped, nfuzzy, fz, cls, ext) ==
    IF stripped = << >>
    THEN Early(Returned(sess, _get_greeting, << >>, EmptyDict, FALSE), sess, << >>, << >>)
    ELSE IF nfuzzy > 0 /\ fz.raises
    THEN Early(Raised(sess, << >>), sess, << >>, <<"fuzzy">>)
    ELSE Corrected(sess, autocorrect_text(stripped, fz),
                   Lower(autocorrect_text(stripped, fz)),
                   Repeat(nfuzzy, "fuzzy"), cls, ext)

\* handle_message(user_input) on the session sess, with the outcomes of the
\* collaborators: the handler's result, the text after typo correction
\* (norm), the collaborators called, in order (calls), whether the turn came
\* to "Intent switching" (routed) and the session it then had (atRoute)
handle_message(sess, raw, fz, cls, ext) ==
    Stripped(sess, Strip(raw), Len(LongTokens(Strip(raw))), fz, cls, ext)

----------------------------------------------------------------------------
(* The state: the session of one ChatbotPipeline, and the call in          *)
(* progress.  last.op is "none" between two calls; after a call it holds   *)
(* what the caller submitted, what the collaborators returned, the session *)
(* before the call (prev) and the result of the call, until the caller has *)
(* taken the reply.  Calls are serialized by the caller.                   *)

InitSession == [intent |-> None, entities |-> EmptyDict, greeted |-> FALSE]

NoCall ==
    [op |-> "none", raw |-> << >>, fz |-> FuzzyIdle, cls |-> ClassifierIdle,
     ext |-> ExtractorIdle, prev |-> InitSession, again |-> FALSE,
     firstReply |-> << >>, firstEntities |-> EmptyDict,
     reply |-> << >>, raised |-> FALSE, vtexts |-> << >>,
     validated |-> EmptyDict, merged |-> FALSE, norm |-> << >>,
     calls |-> << >>, routed |-> FALSE, atRoute |-> InitSession]

Init ==
    /\ session = InitSession
    /\ last = NoCall

\* the outcomes a collaborator can have in a call: none to choose from when
\* the call does not reach it
FuzzyChoices(raw) ==
    IF LongTokens(Strip(raw)) # << >> THEN FuzzyOutcomes ELSE {FuzzyIdle}

ClassifierChoices(sess, raw, fz) ==
    IF "classifier" \in Range(handle_message(sess, raw, fz, ClassifierIdle, ExtractorIdle).calls)
    THEN ClassifierOutcomes ELSE {ClassifierIdle}

ExtractorChoices(sess, raw, fz, cls) ==
    IF "extractor" \in Range(handle_message(sess, raw, fz, cls, ExtractorIdle).calls)
    THEN ExtractorOutcomes ELSE {ExtractorIdle}

\* one call of handle_message
Call(raw, fz, cls, ext, again) ==
    \E r \in {handle_message(session, raw, fz, cls, ext)} :
        /\ session' = r.session
        /\ last' = [op |-> "handle_message", raw |-> raw, fz |-> fz, cls |-> cls,
                    ext |-> ext, prev |-> session, again |-> again,
                    firstReply    |-> IF again THEN last.reply ELSE << >>,
                    firstEntities |-> IF again THEN session.entities ELSE EmptyDict,
                    reply |-> r.reply, raised |-> r.raised, vtexts |-> r.vtexts,
                    validated |-> r.validated, merged |-> r.merged, norm |-> r.norm,
                    calls |-> r.calls, routed |-> r.routed, atRoute |-> r.atRoute]

\* bot.handle_message(msg)
HandleMessage ==
    /\ last.op = "none"
    /\ \E raw \in Utterances :
         \E fz \in FuzzyChoices(raw) :
           \E cls \in ClassifierChoices(session, raw, fz) :
             \E ext \in ExtractorChoices(session, raw, fz, cls) :
               Call(raw, fz, cls, ext, FALSE)

\* the message of a turn that merged entities, submitted a second time, the
\* collaborators returning what they returned the first time
Resubmit ==
    /\ last.op = "handle_message"
    /\ last.merged
    /\ ~last.again
    /\ Call(last.raw, last.fz, last.cls, last.ext, TRUE)

\* bot.reset()
Reset ==
    /\ last.op = "none"
    /\ session' = InitSession
    /\ last' = [NoCall EXCEPT !.op = "reset", !.prev = session, !.reply = _get_greeting]

\* the caller takes the reply (or the exception) of the call
Return ==
    /\ last.op # "none"
    /\ last' = NoCall
    /\ UNCHANGED session

Next == HandleMessage \/ Resubmit \/ Reset \/ Return

Spec == Init /\ [][Next]_vars

----------------------------------------------------------------------------
(* Properties                                                              *)

SlotSet == Range(REQUIRED_ENTITIES) \cup Range(OPTIONAL_ENTITIES)

\* a call of handle_message has ended and its result is at hand
Handled == last.op = "handle_message"

\* the call obtained an intent from the classifier
GotIntent == Handled /\ "classifier" \in Range(last.calls) /\ ~last.cls.raises

\* the classifier's answer is known: not "unknown", confidence >= 0.55
Known(cls) == cls.intent # "unknown" /\ cls.conf >= ConfThreshold

\* the call obtained a known intent
KnownIntent == GotIntent /\ Known(last.cls)

\* the turn is an intent switch: a known intent, and the session held
\* another known intent
IsSwitch ==
    /\ KnownIntent
    /\ last.prev.intent \notin {None, "unknown"}
    /\ last.prev.intent # last.cls.intent

\* no collaborator raised in the call
NoFailure == ~last.fz.raises /\ ~last.cls.raises /\ ~last.ext.raises

\* the turn took the PET_TYPE of the session from one species to another
PetTypeChanged ==
    /\ "PET_TYPE" \in DOMAIN last.prev.entities
    /\ "PET_TYPE" \in DOMAIN session.entities
    /\ session.entities["PET_TYPE"] # last.prev.entities["PET_TYPE"]

UpdatedPetLine(species) == <<"Okay, updated pet type to ">> \o species \o <<".">>

\* the reply holds an "updated" acknowledgment line
HasUpdatedLine(reply) ==
    \E i \in 1..Len(reply) : reply[i] \in {"Okay, updated pet type to ", "Okay, updated "}

\* C1: whenever session.entities holds PET_TYPE, its value is "dog" or "cat"
\* in lower case, whatever species and casing the extractor returned.
C1_PetTypeDogOrCat ==
    "PET_TYPE" \in DOMAIN session.entities
        => session.entities["PET_TYPE"] \in SupportedSpecies

\* a merge stored the species of an extractor result written in another casing
C1_Witness ==
    /\ Handled /\ last.merged
    /\ "PET_TYPE" \in DOMAIN last.ext.ents
    /\ last.ext.ents["PET_TYPE"] \notin SupportedSpecies
    /\ "PET_TYPE" \in DOMAIN session.entities
    /\ session.entities["PET_TYPE"] = Lower(last.ext.ents["PET_TYPE"])

\* C2: every key of session.entities belongs to the fixed slot set, for
\* every mapping the extractor may return, labels outside the slot set
\* included.
C2_KeysInSlotSet == DOMAIN session.entities \subseteq SlotSet

\* C3, as claimed: an intent switch replaces the session by {intent = new,
\* entities = {}, greeted = true} before routing; every other turn discards
\* no accumulated entity: every slot the session held is still held after
\* the turn.
C3_NoDiscardOutsideSwitch ==
    Handled =>
        IF IsSwitch
        THEN /\ last.routed
             /\ last.atRoute = [intent |-> last.cls.intent, entities |-> EmptyDict,
                                greeted |-> TRUE]
        ELSE /\ last.atRoute.entities = last.prev.entities
             /\ DOMAIN last.prev.entities \subseteq DOMAIN session.entities

\* C3, amended: an intent switch replaces the session by {intent = new,
\* entities = {}, greeted = true} before routing; every other turn keeps the
\* accumulated entities: routing starts from the entities the session had,
\* and the turn leaves every slot in place, but for the species-dependent
\* BREED and FURLENGTH when it changes the pet type.
C3_ResetOnlyOnSwitch ==
    Handled =>
        IF IsSwitch
        THEN /\ last.routed
             /\ last.atRoute = [intent |-> last.cls.intent, entities |-> EmptyDict,
                                greeted |-> TRUE]
        ELSE /\ last.atRoute.entities = last.prev.entities
             /\ \A k \in DOMAIN last.prev.entities :
                    \/ k \in DOMAIN session.entities
                    \/ (k \in {"BREED", "FURLENGTH"} /\ PetTypeChanged)

\* a switch from find_pet, with slots collected, to another known intent
C3_Witness ==
    /\ Handled /\ IsSwitch
    /\ last.prev.intent = "find_pet"
    /\ {"PET_TYPE", "STATE"} \subseteq DOMAIN last.prev.entities
    /\ session = [intent |-> last.cls.intent, entities |-> EmptyDict, greeted |-> TRUE]

\* the text contains an out-of-scope species keyword, in any casing
MentionsOtherSpecies(text) == ContainsAny(Lower(text), species_out_of_scope)

ReachesValidation ==
    /\ GotIntent
    /\ IF Known(last.cls)
       THEN last.cls.intent = "find_pet"
       ELSE last.prev.intent = "find_pet"

C5_FailureLeavesSession == (Handled /\ last.raised) => session = last.prev

\* C6: when a merge receives a validated PET_TYPE that differs, whatever the
\* casing, from the PET_TYPE of the session, then after the turn PET_TYPE is
\* the new species, the reply contains "updated pet type to <new species>",
\* and BREED and FURLENGTH are absent unless the validated entities of the
\* same turn supplied them.
C6_PetTypeSwitch ==
    (/\ Handled /\ last.merged
     /\ "PET_TYPE" \in DOMAIN last.validated
     /\ "PET_TYPE" \in DOMAIN last.prev.entities
     /\ Lower(last.validated["PET_TYPE"]) # Lower(last.prev.entities["PET_TYPE"]))
        => /\ "PET_TYPE" \in DOMAIN session.entities
           /\ session.entities["PET_TYPE"] = Lower(last.validated["PET_TYPE"])
           /\ Contains(last.reply, UpdatedPetLine(Lower(last.validated["PET_TYPE"])))
           /\ \A k \in {"BREED", "FURLENGTH"} :
                  k \in DOMAIN session.entities
                      => /\ k \in DOMAIN last.validated
                         /\ session.entities[k] = last.validated[k]

\* a session with a breed and a fur length changed species and lost both
C6_Witness ==
    /\ Handled /\ last.merged
    /\ {"PET_TYPE", "BREED", "FURLENGTH"} \subseteq DOMAIN last.prev.entities
    /\ "PET_TYPE" \in DOMAIN last.validated
    /\ Lower(last.validated["PET_TYPE"]) # last.prev.entities["PET_TYPE"]
    /\ DOMAIN session.entities \cap {"BREED", "FURLENGTH"} = {}

\* the second of two successive submissions of a find_pet utterance that
\* validated to a non-empty mapping
SecondFindPet ==
    /\ Handled /\ last.again /\ KnownIntent
    /\ last.cls.intent = "find_pet"

\* C7: handling the same valid find_pet utterance twice in succession, the
\* collaborators returning the same results, gives a second reply with no
\* "updated" acknowledgment line and leaves session.entities as the first
\* turn left them.
C7_MergeIdempotent ==
    SecondFindPet
        => /\ ~HasUpdatedLine(last.reply)
           /\ session.entities = last.firstEntities

\* the first submission updated a slot, the second acknowledged nothing
C7_Witness ==
    /\ SecondFindPet
    /\ HasUpdatedLine(last.firstReply)
    /\ ~HasUpdatedLine(last.reply)
    /\ session.entities = last.firstEntities

\* C8: every value stored in session.entities has at least three characters
\* and contains a vowel (in either case), the values written by the colour
\* fallback and the lower-cased PET_TYPE included.
C8_ValuesPlausible ==
    \A k \in DOMAIN session.entities :
        /\ Len(session.entities[k]) >= 3
        /\ HasVowel(Lower(session.entities[k]))

\* the extractor returned a nonsense value, and the merge stored a colour
\* the fallback inferred
C8_Witness ==
    /\ Handled /\ last.merged
    /\ \E k \in DOMAIN last.ext.ents : Nonsense(last.ext.ents[k])
    /\ "COLOR" \in DOMAIN session.entities \ DOMAIN last.ext.ents

\* C9: NOTICE is never a key of session.entities, and a turn whose
\* validation gave a NOTICE returns the notice text as its reply and writes
\* nothing to session.entities.
C9_NoticeNeverStored ==
    /\ "NOTICE" \notin DOMAIN session.entities
    /\ (Handled /\ ~last.raised /\ "NOTICE" \in DOMAIN last.validated)
          => /\ last.reply = last.validated["NOTICE"]
             /\ ~last.merged
             /\ session.entities = last.prev.entities

\* the short-input attempt of the unknown handler got a NOTICE, which went
\* through the merge step, in a session with slots
C9_Witness ==
    /\ Handled /\ GotIntent
    /\ ~Known(last.cls)
    /\ Len(last.vtexts) = 1 /\ Len(Split(last.norm)) <= 2
    /\ last.validated = Notice(CatchNotice)
    /\ last.reply = CatchNotice
    /\ session.entities = last.prev.entities
    /\ session.entities # EmptyDict

\* the text of a reply is not empty
NonEmptyText(reply) == \E i \in 1..Len(reply) : reply[i] # ""

\* C10: a call of handle_message in which the collaborators return normally
\* raises no error and yields a non-empty reply text.
C10_AlwaysReplies ==
    (Handled /\ NoFailure) => (~last.raised /\ NonEmptyText(last.reply))

\* an intent label the routing does not know, at full confidence
C10_Witness ==
    /\ Handled /\ KnownIntent
    /\ last.cls.intent \notin {"find_pet", "pet_care", "thank_you", "greeting", "goodbye"}
    /\ last.reply = FallbackReply

\* the characters of the text that are not whitespace
Visible(text) == SelectSeq(text, LAMBDA c : c \notin Whitespace)

\* C11: a call of handle_message whose input is empty after trimming returns
\* the full greeting text and leaves the whole session unchanged, and no
\* collaborator is consulted.
C11_EmptyInputGreets ==
    (Handled /\ Visible(last.raw) = << >>)
        => /\ ~last.raised
           /\ last.reply = _get_greeting
           /\ session = last.prev
           /\ last.calls = << >>

\* a blank message met a session that was not greeted, and left it so
C11_Witness ==
    /\ Handled
    /\ last.raw # << >> /\ Visible(last.raw) = << >>
    /\ ~last.prev.greeted /\ ~session.greeted
    /\ last.reply = _get_greeting

\* the turn's input, after trimming and typo correction, is one of the words,
\* in any casing
SaysOneOf(words) == Handled /\ ~last.raised /\ Lower(last.norm) \in words

\* C12: a turn whose normalized input is exactly hi, hey or hello, in any
\* casing, returns the "Hello again" reply, sets greeted and leaves
\* session.intent and session.entities unchanged; a turn whose input is
\* exactly no, nope or nah returns the decline acknowledgment and leaves the
\* whole session unchanged.  Neither consults the intent classifier.
C12_SmallTalk ==
    /\ SaysOneOf({<<"h", "i">>, <<"h", "e", "y">>, <<"h", "e", "l", "l", "o">>})
         => /\ last.reply = HelloAgainReply
            /\ session = [last.prev EXCEPT !.greeted = TRUE]
            /\ "classifier" \notin Range(last.calls)
    /\ SaysOneOf({<<"n", "o">>, <<"n", "o", "p", "e">>, <<"n", "a", "h">>})
         => /\ last.reply = DeclineReply
            /\ session = last.prev
            /\ "classifier" \notin Range(last.calls)

\* "Hello", capitalised, greeted a session that was not greeted
C12_Witness ==
    /\ SaysOneOf({<<"h", "e", "l", "l", "o">>})
    /\ last.norm # Lower(last.norm)
    /\ ~last.prev.greeted /\ session.greeted
    /\ last.reply = HelloAgainReply

\* the reply ends with the text
EndsWith(reply, text) ==
    /\ Len(reply) >= Len(text)
    /\ SubSeq(reply, Len(reply) - Len(text) + 1, Len(reply)) = text

\* the final search confirmation opens with this
SearchLead == "Got it! Searching for "

\* C13: after a merge of validated entities the reply ends with the prompt
\* for the first missing required slot, PET_TYPE before STATE, and it ends
\* with the final search confirmation exactly when PET_TYPE and STATE are
\* both in session.entities after the merge.
C13_PromptsInOrder ==
    (Handled /\ last.merged) =>
        /\ "PET_TYPE" \notin DOMAIN session.entities
             => EndsWith(last.reply, <<" ", "Are you looking for a dog or a cat?">>)
        /\ ("PET_TYPE" \in DOMAIN session.entities /\ "STATE" \notin DOMAIN session.entities)
             => EndsWith(last.reply, <<" ", "Which state or area are you in?">>)
        /\ {"PET_TYPE", "STATE"} \subseteq DOMAIN session.entities
             <=> (SearchLead \in Range(last.reply) /\ last.reply[Len(last.reply)] = "...")
        /\ {"PET_TYPE", "STATE"} \subseteq DOMAIN session.entities
             => EndsWith(last.reply, <<" ">> \o _confirm_and_search(session.entities))

\* a merge that stored an optional slot while both required slots were
\* missing asked for the pet type
C13_Witness ==
    /\ Handled /\ last.merged
    /\ DOMAIN session.entities # {}
    /\ DOMAIN session.entities \cap {"PET_TYPE", "STATE"} = {}
    /\ EndsWith(last.reply, <<" ", "Are you looking for a dog or a cat?">>)

\* the text that the last call of _extract_entities of the turn was given
LastValidatedText == last.vtexts[Len(last.vtexts)]

\* validation found nothing usable in the text: no out-of-scope species, in
\* the text or from the extractor, and no slot left after its filters
NothingUsable(text, ents) ==
    /\ ~MentionsOtherSpecies(text)
    /\ ~UnsupportedSpecies(StripPlaceholders(ents))
    /\ \/ FailsSanity(text)
       \/ ColorFallback(DropNonsense(ValidateBreed(StripPlaceholders(ents))), text)
              = EmptyDict

\* the turn went to the unknown handler of a session in slot filling
UnknownInFindPet ==
    /\ GotIntent /\ NoFailure
    /\ ~Known(last.cls)
    /\ last.prev.intent = "find_pet"
    /\ last.vtexts # << >>

\* C14: in the unknown handler of a find_pet session, when validation of
\* the input yields nothing usable, the reply is the "give me more detail"
\* nudge if a required slot already has a value in the session, and
\* otherwise the "tell me pet type and state" nudge.
C14_NudgeWhenNothingUsable ==
    (UnknownInFindPet /\ NothingUsable(LastValidatedText, last.ext.ents))
        => last.reply = IF AnyRequired(last.prev.entities)
                        THEN MoreDetailReply ELSE PetAndStateReply

\* validation raises no out-of-scope and no garbage notice on the text, and
\* its filters leave no entity of what the extractor returned
NothingExtracted(text, ents) ==
    /\ ~MentionsOtherSpecies(text)
    /\ ~FailsSanity(text)
    /\ ~UnsupportedSpecies(StripPlaceholders(ents))
    /\ ColorFallback(DropNonsense(ValidateBreed(StripPlaceholders(ents))), text)
           = EmptyDict

\* C15: in the find-pet handler, a turn for which validation extracts no
\* entities at all, and raises no out-of-scope or garbage notice, replies with
\* the prompt for the first missing required slot if one is missing, and
\* otherwise with the final search confirmation, without acknowledgment text
\* and without changing session.entities.
C15_RepromptWhenNothingExtracted ==
    (/\ KnownIntent /\ NoFailure
     /\ last.cls.intent = "find_pet"
     /\ NothingExtracted(last.norm, last.ext.ents))
        => /\ last.reply = PromptOrSearch(last.atRoute.entities)
           /\ session.entities = last.atRoute.entities

\* C16: when the out-of-scope species scan or the sanity gate of a
\* validation produces a notice, the entity extractor is not called during
\* that validation.
C16_NoExtractorAfterNotice ==
    (/\ Handled /\ last.vtexts # << >>
     /\ \A i \in 1..Len(last.vtexts) :
            MentionsOtherSpecies(last.vtexts[i]) \/ FailsSanity(last.vtexts[i]))
        => "extractor" \notin Range(last.calls)

\* the turn went through the short-input branch of the unknown handler with
\* this stripped input
ShortUnknown ==
    /\ GotIntent /\ ~Known(last.cls)
    /\ ~(~last.prev.greeted /\ last.cls.intent = "greeting")
    /\ last.prev.intent = "find_pet"
    /\ Len(Split(last.norm)) <= 2

\* C17: in the unknown handler of a find_pet session, for an input of at
\* most two whitespace tokens, the pseudo-sentence "I want a <token> <current
\* PET_TYPE or 'pet'>" is submitted to validation exactly when the input is a
\* single token of length > 3; every other short input is submitted
\* unchanged.
C17_WrapsLongTokens ==
    ShortUnknown =>
        /\ last.vtexts # << >>
        /\ last.vtexts[1] =
              IF Len(Split(last.norm)) = 1 /\ Len(last.norm) > 3
              THEN <<"I", " ", "w", "a", "n", "t", " ", "a", " ">> \o last.norm
                   \o <<" ">> \o Get(last.prev.entities, "PET_TYPE", <<"p", "e", "t">>)
              ELSE last.norm

\* C18: every turn on which the classifier is consulted and answers leaves
\* greeted true; if greeted was false before the turn and the label is
\* greeting, the reply is the full greeting text and session.intent and
\* session.entities are unchanged; with greeted already true, a confident
\* greeting label yields the "Hello again" reply.
C18_FirstTurnGreeting ==
    GotIntent =>
        /\ session.greeted
        /\ (~last.prev.greeted /\ last.cls.intent = "greeting")
             => /\ ~last.raised
                /\ last.reply = _get_greeting
                /\ session.intent = last.prev.intent
                /\ session.entities = last.prev.entities
        /\ (last.prev.greeted /\ Known(last.cls) /\ last.cls.intent = "greeting")
             => last.reply = HelloAgainReply

\* a greeting label below the confidence threshold, on the first turn of a
\* session, got the full greeting
C18_Witness ==
    /\ GotIntent
    /\ ~last.prev.greeted /\ session.greeted
    /\ last.cls.intent = "greeting" /\ last.cls.conf < ConfThreshold
    /\ last.reply = _get_greeting
    /\ last.reply # HelloAgainReply

\* a low-confidence turn: the classifier answered "unknown", or with a
\* confidence below 0.55
LowConfidenceTurn == GotIntent /\ ~Known(last.cls)

\* the turn is answered by the first-turn greeting
FirstTurnGreeting == ~last.prev.greeted /\ last.cls.intent = "greeting"

\* C19, as claimed: a low-confidence turn never changes session.intent, and
\* session.intent is never "unknown"; when the session intent is not
\* find_pet such a turn returns the generic fallback and leaves
\* session.entities unchanged, without calling the entity extractor.
C19_LowConfidenceFallback ==
    /\ session.intent # "unknown"
    /\ LowConfidenceTurn =>
          /\ session.intent = last.prev.intent
          /\ last.prev.intent # "find_pet"
               => /\ last.reply = FallbackReply
                  /\ session.entities = last.prev.entities
                  /\ "extractor" \notin Range(last.calls)

\* C19, amended: the same, but that the generic fallback is the reply only
\* when the turn is not answered by the first-turn greeting (greeted false
\* before the turn and the label greeting).
C19_LowConfidenceFallbackAfterGreeting ==
    /\ session.intent # "unknown"
    /\ LowConfidenceTurn =>
          /\ session.intent = last.prev.intent
          /\ last.prev.intent # "find_pet"
               => /\ ~FirstTurnGreeting => last.reply = FallbackReply
                  /\ session.entities = last.prev.entities
                  /\ "extractor" \notin Range(last.calls)

\* the label "unknown" at full confidence, in a session whose intent is
\* pet_care, got the generic fallback and left the intent
C19_Witness ==
    /\ LowConfidenceTurn
    /\ last.cls.intent = "unknown" /\ last.cls.conf >= ConfThreshold
    /\ last.prev.intent = "pet_care" /\ session.intent = "pet_care"
    /\ last.reply = FallbackReply

\* C20: whenever session.entities is not empty, session.intent is find_pet:
\* entities are written only while the recorded intent is find_pet, and
\* every change of the recorded intent away from find_pet goes through the
\* intent-switch reset (or an explicit reset), which empties the entities.
C20_EntitiesOnlyInFindPet ==
    /\ session.entities # EmptyDict => session.intent = "find_pet"
    /\ (Handled /\ last.merged)
         => /\ last.atRoute.intent = "find_pet"
            /\ session.intent = "find_pet"
    /\ (Handled /\ ~last.merged) => session.entities \in {last.prev.entities, EmptyDict}
    /\ last.op = "reset" => session.entities = EmptyDict
    /\ (Handled /\ last.prev.intent = "find_pet" /\ session.intent # "find_pet")
         => /\ IsSwitch
            /\ last.atRoute.entities = EmptyDict
            /\ session.entities = EmptyDict

\* a session in slot filling said goodbye and lost its slots
C20_Witness ==
    /\ Handled
    /\ last.prev.intent = "find_pet" /\ last.prev.entities # EmptyDict
    /\ session.intent = "goodbye"
    /\ session.entities = EmptyDict

\* PET_TYPE and STATE are both among the entities
BothRequired(entities) == {"PET_TYPE", "STATE"} \subseteq DOMAIN entities

\* C21: a turn of handle_message removes a key from session.entities only if
\* it performs an intent-switch reset, or the key is BREED or FURLENGTH and
\* the turn changes PET_TYPE; so PET_TYPE and STATE, once both present, stay
\* present over every turn that is no intent switch, and every merge of such
\* a turn ends with the final search confirmation, not with a slot prompt.
C21_SlotsPersist ==
    [][ last'.op = "handle_message" =>
          /\ \A k \in DOMAIN session.entities \ DOMAIN session'.entities :
                \/ IsSwitch'
                \/ (k \in {"BREED", "FURLENGTH"} /\ PetTypeChanged')
          /\ (BothRequired(session.entities) /\ ~IsSwitch')
                => /\ BothRequired(session'.entities)
                   /\ last'.merged
                        => /\ SearchLead \in Range(last'.reply)
                           /\ last'.reply[Len(last'.reply)] = "..."
                           /\ \A i \in 1..Len(last'.reply) :
                                  last'.reply[i] \notin
                                      {"Are you looking for a dog or a cat?",
                                       "Which state or area are you in?"}
      ]_vars

\* a session with both required slots and a breed changed species: the
\* breed went, the required slots stayed, and the merge ended with the search
\* confirmation
C21_Witness ==
    /\ Handled /\ last.merged /\ ~IsSwitch
    /\ BothRequired(last.prev.entities)
    /\ PetTypeChanged
    /\ "BREED" \in DOMAIN last.prev.entities \ DOMAIN session.entities
    /\ BothRequired(session.entities)
    /\ SearchLead \in Range(last.reply)

=============================================================================
